---- MODULE Spec2Model ----
(***************************************************************************)
(* Model of src/ev_charging.py: calculate_energy_needs and the greedy      *)
(* slot scheduler schedule_charging.                                       *)
(*                                                                         *)
(* Numbers.  The program computes with floats; the model computes with     *)
(* exact rationals written as integers:                                    *)
(*   - a state of charge is a percentage (0.2 is 20, 0.8 is 80);           *)
(*   - an energy or a power is counted in units of 1/95 kWh (1/95 kW), so  *)
(*     that energy_kwh = (target_soc - initial_soc) * capacity / 0.95      *)
(*     is the integer (target - 20) * capacity, and a charge rate of r kW  *)
(*     is 95 * r units.                                                    *)
(* Python indices are kept 0-based (req_index, -1 for "no requirement");   *)
(* the TLA+ sequence position is the index plus one.                       *)
(***************************************************************************)
EXTENDS Integers, Sequences, FiniteSets, TLC

\* ---------------------------------------------------------------- constants

\* initial_soc=0.2, as a percentage
InitialSoc == 20

\* the SoC of a full battery, 1.0, as a percentage
FullSoc == 100

\* the charging efficiency 0.95, as a percentage: units per kWh
Efficiency == 95

\* first hour of the horizon: range(18, total_hours); also the hour of day
\* at which an eligibility window opens (prior_day_start = day * 24 + 18)
FirstHour == 18

\* hours per day
DayHours == 24

\* ------------------------------------------------------------------- bounds

\* num_ports is drawn from 0..MaxPorts
MaxPorts == 2

\* total number of requirement entries over all vehicles of an input
MaxReqs == 2

\* the longest horizon (total_hours) of the input family
Horizon == 44

\* ------------------------------------------------------------ input family

\* the roster, in the row order of the availability matrix
FamilyCars == <<"c1", "c2">>

Capacities == {19}

Rates == {1, 2}

Days == {0, 1}

Times == {7}

\* target SoC percentages: with capacity 19 the needs are -1, 0, 1, 2 kWh
Targets == {15, 20, 25, 30}

\* the columns (absolute hours) of the availability matrix
Columns == {17, 18, 19, 20, 24, 42, 43, 50}

\* the rows of the availability matrix: the hours at which the cell is 1
Rows == {Columns, {17, 19, 24, 43, 50}}

TotalHoursSet == {20, Horizon}

Range(s) == {s[i] : i \in DOMAIN s}

\* requirement entries; a target at or below the initial SoC only on day 0
ReqEntries ==
    {e \in [day : Days, time : Times, target_soc : Targets] :
        e.day = 0 \/ e.target_soc > InitialSoc}

ReqSeqs == UNION {[1..n -> ReqEntries] : n \in 0..MaxReqs}

RECURSIVE SumLen(_, _)
SumLen(f, S) ==
    IF S = {} THEN 0
    ELSE LET c == CHOOSE x \in S : TRUE IN Len(f[c]) + SumLen(f, S \ {c})

FamilyInputs ==
    {[car_index |-> FamilyCars, cars_dict |-> cd, requirements |-> rq,
      availability |-> [columns |-> Columns, on |-> on],
      num_ports |-> np, total_hours |-> th] :
        cd \in [Range(FamilyCars) -> [capacity_kWh : Capacities, max_charge_rate_kW : Rates]],
        rq \in {r \in [Range(FamilyCars) -> ReqSeqs] : SumLen(r, Range(FamilyCars)) <= MaxReqs},
        on \in [Range(FamilyCars) -> Rows],
        np \in 0..MaxPorts,
        th \in TotalHoursSet}

\* Scenario of one vehicle: capacity 50 kWh, max rate 11 kW, day 0 target 0.8
\* by 07:00, 1 port, every vehicle available at every hour of the default
\* horizon of 168 hours
Scenario7 ==
    [car_index |-> <<"v1">>,
     cars_dict |-> [c \in {"v1"} |-> [capacity_kWh |-> 50, max_charge_rate_kW |-> 11]],
     requirements |-> [c \in {"v1"} |-> <<[day |-> 0, time |-> 7, target_soc |-> 80]>>],
     availability |-> [columns |-> 0..167, on |-> [c \in {"v1"} |-> 0..167]],
     num_ports |-> 1,
     total_hours |-> 168]

\* Scenario of two vehicles competing for 1 port in hour 18: "n1" needs 5 kWh
\* (capacity 95 kWh, target 0.25) at max rate 7 kW, "o1" has no requirement
\* and max rate 22 kW; in either row order
Scenario5(order) ==
    [car_index |-> order,
     cars_dict |-> [c \in {"n1", "o1"} |->
                      IF c = "n1" THEN [capacity_kWh |-> 95, max_charge_rate_kW |-> 7]
                      ELSE [capacity_kWh |-> 95, max_charge_rate_kW |-> 22]],
     requirements |-> [c \in {"n1", "o1"} |->
                         IF c = "n1" THEN <<[day |-> 0, time |-> 7, target_soc |-> 25]>>
                         ELSE <<>>],
     availability |-> [columns |-> {18}, on |-> [c \in {"n1", "o1"} |-> {18}]],
     num_ports |-> 1,
     total_hours |-> 24]

ScenarioInputs == {Scenario7, Scenario5(<<"n1", "o1">>), Scenario5(<<"o1", "n1">>)}

\* ------------------------------------------ input family of the simulator

\* a vehicle has at most MaxSimReqs requirement entries
MaxSimReqs == 2

\* "a" is the vehicle that may hold requirements, "b" never holds any
SimCars == <<"a", "b">>

SimCarsDict ==
    [c \in {"a", "b"} |->
        IF c = "a" THEN [capacity_kWh |-> 19, max_charge_rate_kW |-> 1]
        ELSE [capacity_kWh |-> 19, max_charge_rate_kW |-> 4]]

\* day 0 by 07:00 to 0.30, day 0 by 19:00 to 0.25, day 1 by 07:00 to 0.30,
\* day 1 by 00:00 to 0.25
SimReqEntries ==
    {[day |-> 0, time |-> 7, target_soc |-> 30],
     [day |-> 0, time |-> 19, target_soc |-> 25],
     [day |-> 1, time |-> 7, target_soc |-> 30],
     [day |-> 1, time |-> 0, target_soc |-> 25]}

SimReqSeqs == UNION {[1..n -> SimReqEntries] : n \in 0..MaxSimReqs}

SimColumns == (18..23) \cup {42, 43, 47, 50}

SimTotalHours == {60, 168}

\* price tables, in cents per kWh: one for every hour of the week, one for
\* three hours only
PriceTables ==
    {[h \in 0..167 |-> 20 + 5 * (h % 3)], [h \in {18, 19, 42} |-> 30]}

SimInputs ==
    {[car_index |-> SimCars, cars_dict |-> SimCarsDict,
      requirements |-> [c \in {"a", "b"} |-> IF c = "a" THEN rq ELSE <<>>],
      availability |-> [columns |-> SimColumns,
                        on |-> [c \in {"a", "b"} |-> IF c = "a" THEN SimColumns ELSE row]],
      num_ports |-> np, total_hours |-> th, price_dict |-> pr] :
        rq \in SimReqSeqs,
        row \in {SimColumns, {}},
        np \in 1..MaxPorts,
        th \in SimTotalHours,
        pr \in PriceTables}

\* -------------------------------------------------------------------- state

VARIABLES
    car_index,          \* availability.index: the vehicles, in row order
    cars_dict,          \* car id -> [capacity_kWh, max_charge_rate_kW]
    requirements,       \* car id -> sequence of [day, time, target_soc]
    availability,       \* [columns, on]: the matrix
    num_ports,
    total_hours,
    energy_needs,       \* car id -> sequence of requirement records
    schedule,           \* car id -> sequence of <<hour, power_kw, port>>
    requirements_met,   \* car id -> sequence of flags
    hour_port_count,    \* hour -> ports used
    hour,               \* the loop variable of schedule_charging
    available_cars,
    car_needs,          \* the priority list of the current hour
    idx,                \* position in car_needs[:num_ports]
    price_dict,         \* hour -> price
    cost_summary,       \* car id -> sequence of <<day, hour, cost>>
    final_soc,          \* car id -> SoC
    hourly_soc,         \* car id -> sequence of <<day, hour, power_kw, soc>>
    sim_queue,          \* the vehicles of schedule.items() still to simulate
    sim_car,            \* the vehicle being simulated
    sim_hour,           \* the loop variable of compute_costs_and_soc
    current_soc,
    pc

vars == <<car_index, cars_dict, requirements, availability, num_ports,
          total_hours, energy_needs, schedule, requirements_met,
          hour_port_count, hour, available_cars, car_needs, idx, price_dict,
          cost_summary, final_soc, hourly_soc, sim_queue, sim_car, sim_hour,
          current_soc, pc>>

inputs == <<car_index, cars_dict, requirements, availability, num_ports,
            total_hours, price_dict>>

\* the state of calculate_energy_needs and schedule_charging
schedvars == <<energy_needs, schedule, requirements_met, hour_port_count, hour,
               available_cars, car_needs, idx>>

\* the state of compute_costs_and_soc
simvars == <<cost_summary, final_soc, hourly_soc, sim_queue, sim_car, sim_hour,
             current_soc>>

Empty == [x \in {} |-> 0]

\* d[k] = v, creating the key when absent (dict assignment)
Put(d, k, v) == [x \in DOMAIN d \cup {k} |-> IF x = k THEN v ELSE d[x]]

\* defaultdict read: the value, or the default when the key is absent
Get(d, k, default) == IF k \in DOMAIN d THEN d[k] ELSE default

\* defaultdict read d[k]: the key is created with the default when absent
Touch(d, k, default) == IF k \in DOMAIN d THEN d ELSE Put(d, k, default)

\* ----------------------------------------------- calculate_energy_needs

\* mutant: the energy reaching the battery is taken for the energy to draw
RealEnergyKwh_NoLoss(target_soc, capacity) ==
    ((target_soc - InitialSoc) * capacity * Efficiency) \div FullSoc

\* lines 48-49: (target_soc - initial_soc) * capacity / 0.95, in units of
\* 1/95 kWh with the SoC as a percentage
RealEnergyKwh(target_soc, capacity) == (target_soc - InitialSoc) * capacity

\* the record appended for one (day, time, target_soc) entry of a vehicle
Requirement(car_id, e) ==
    [day |-> e.day,
     deadline_hour |-> (e.day + 1) * DayHours + e.time,
     energy_kwh |-> RealEnergyKwh(e.target_soc, cars_dict[car_id].capacity_kWh),
     max_rate_kw |-> Efficiency * cars_dict[car_id].max_charge_rate_kW,
     target_soc |-> e.target_soc,
     prior_day_start |-> e.day * DayHours + FirstHour,
     prior_day_end |-> (e.day + 1) * DayHours]

\* vehicles whose requirement mapping is empty get no key
EnergyNeeds ==
    [car_id \in {c \in DOMAIN requirements : requirements[c] # <<>>} |->
        [i \in DOMAIN requirements[car_id] |-> Requirement(car_id, requirements[car_id][i])]]

CalculateEnergyNeeds ==
    /\ pc = "calc"
    /\ energy_needs' = EnergyNeeds
    /\ pc' = "init"
    /\ UNCHANGED <<inputs, simvars, schedule, requirements_met, hour_port_count, hour,
                   available_cars, car_needs, idx>>

\* ----------------------------------------------------- schedule_charging

\* lines 67-71: the empty schedule, one false flag per requirement, hour 18
ScheduleInit ==
    /\ pc = "init"
    /\ schedule' = Empty
    /\ requirements_met' = [car_id \in DOMAIN energy_needs |->
                               [i \in DOMAIN energy_needs[car_id] |-> FALSE]]
    /\ hour_port_count' = Empty
    /\ hour' = FirstHour
    /\ pc' = "hour"
    /\ UNCHANGED <<inputs, simvars, energy_needs, available_cars, car_needs, idx>>

\* mutant: every vehicle of the matrix, whatever the cell holds
AvailableCars_All(h) == car_index

\* availability.index[availability[hour] == 1].tolist()
AvailableCars(h) == SelectSeq(car_index, LAMBDA c : h \in availability.on[c])

\* mutant: every hour counts as inside the window
InWindow_Always(req, h) == TRUE

\* line 85: prior_day_start <= hour < prior_day_end
InWindow(req, h) == req.prior_day_start <= h /\ h < req.prior_day_end

\* position (1-based) of the first requirement that is not met and whose
\* window contains h, or 0 when there is none
RECURSIVE FirstEligible(_, _, _)
FirstEligible(car_id, h, i) ==
    IF i > Len(energy_needs[car_id]) THEN 0
    ELSE IF ~requirements_met[car_id][i] /\ InWindow(energy_needs[car_id][i], h) THEN i
    ELSE FirstEligible(car_id, h, i + 1)

\* every requirement of car_id from position i on that is not met and whose
\* window contains h, as candidates
RECURSIVE AllEligible(_, _, _)
AllEligible(car_id, h, i) ==
    IF i > Len(energy_needs[car_id]) THEN <<>>
    ELSE (IF ~requirements_met[car_id][i] /\ InWindow(energy_needs[car_id][i], h)
          THEN <<[car_id |-> car_id, req_index |-> i - 1,
                  energy_kwh |-> energy_needs[car_id][i].energy_kwh,
                  max_rate_kw |-> energy_needs[car_id][i].max_rate_kw]>>
          ELSE <<>>) \o AllEligible(car_id, h, i + 1)

\* mutant: the scan of the requirements does not stop at the first match
RECURSIVE BuildCarNeeds_NoBreak(_, _)
BuildCarNeeds_NoBreak(cs, h) ==
    IF cs = <<>> THEN <<>>
    ELSE LET car_id == Head(cs)
             rest == BuildCarNeeds_NoBreak(Tail(cs), h)
         IN IF car_id \notin DOMAIN energy_needs
            THEN <<[car_id |-> car_id, req_index |-> -1, energy_kwh |-> 0,
                    max_rate_kw |-> Efficiency * cars_dict[car_id].max_charge_rate_kW]>> \o rest
            ELSE AllEligible(car_id, h, 1) \o rest

\* lines 78-87: at most one candidate per available vehicle, in row order
RECURSIVE BuildCarNeeds(_, _)
BuildCarNeeds(cs, h) ==
    IF cs = <<>> THEN <<>>
    ELSE LET car_id == Head(cs)
             rest == BuildCarNeeds(Tail(cs), h)
         IN IF car_id \notin DOMAIN energy_needs
            THEN <<[car_id |-> car_id, req_index |-> -1, energy_kwh |-> 0,
                    max_rate_kw |-> Efficiency * cars_dict[car_id].max_charge_rate_kW]>> \o rest
            ELSE LET i == FirstEligible(car_id, h, 1)
                 IN IF i = 0 THEN rest
                    ELSE <<[car_id |-> car_id, req_index |-> i - 1,
                            energy_kwh |-> energy_needs[car_id][i].energy_kwh,
                            max_rate_kw |-> energy_needs[car_id][i].max_rate_kw]>> \o rest

\* Python's order on tuples of numbers: a < b
TupleLess(a, b) ==
    \E i \in 1..Len(a) : a[i] < b[i] /\ \A j \in 1..(i - 1) : a[j] = b[j]

\* sorted() is stable: x goes after every element whose key is not greater
RECURSIVE InsertSorted(_, _)
InsertSorted(s, x) ==
    IF s = <<>> THEN <<x>>
    ELSE IF TupleLess(x.key, Head(s).key) THEN <<x>> \o s
    ELSE <<Head(s)>> \o InsertSorted(Tail(s), x)

\* sorted(s, key=...) on a sequence of [key, val]
RECURSIVE SortedByKey(_)
SortedByKey(s) ==
    IF s = <<>> THEN <<>>
    ELSE InsertSorted(SortedByKey(SubSeq(s, 1, Len(s) - 1)), s[Len(s)])

Vals(s) == [i \in DOMAIN s |-> s[i].val]

\* mutant: the key without its tie-break on the max rate
NeedsKey_NoTieBreak(c) == <<c.energy_kwh>>

\* key=lambda x: (x[2], -x[3])
NeedsKey(c) == <<c.energy_kwh, -c.max_rate_kw>>

\* key=lambda x: -x[3]
RateKey(c) == <<-c.max_rate_kw>>

\* line 90
CarsWithNeeds(cn) ==
    LET sel == SelectSeq(cn, LAMBDA c : c.energy_kwh > 0)
    IN Vals(SortedByKey([i \in DOMAIN sel |-> [key |-> NeedsKey(sel[i]), val |-> sel[i]]]))

\* line 91
CarsWithoutNeeds(cn) ==
    LET sel == SelectSeq(cn, LAMBDA c : c.energy_kwh = 0)
    IN Vals(SortedByKey([i \in DOMAIN sel |-> [key |-> RateKey(sel[i]), val |-> sel[i]]]))

\* lines 90-92
Prioritize(cn) == CarsWithNeeds(cn) \o CarsWithoutNeeds(cn)

\* mutant: the list is not truncated
SliceTo_All(s, n) == s

\* the Python slice s[:n]
SliceTo(s, n) ==
    IF n >= 0 THEN SubSeq(s, 1, IF n < Len(s) THEN n ELSE Len(s))
    ELSE SubSeq(s, 1, Len(s) + n)

RECURSIVE SumPower(_, _, _)
SumPower(sessions, lo, hi) ==
    IF sessions = <<>> THEN 0
    ELSE (IF lo <= Head(sessions)[1] /\ Head(sessions)[1] < hi THEN Head(sessions)[2] ELSE 0)
         + SumPower(Tail(sessions), lo, hi)

\* mutant: the sum runs over all sessions, not only those of the window
EnergyDelivered_AllSessions(sched, car_id, req) ==
    SumPower(Get(sched, car_id, <<>>), 0, req.prior_day_end + 1000)

\* sum(p for h, p, _ in sessions if prior_day_start <= h < prior_day_end)
EnergyDelivered(sched, car_id, req) ==
    SumPower(Get(sched, car_id, <<>>), req.prior_day_start, req.prior_day_end)

Min(a, b) == IF a <= b THEN a ELSE b

\* line 71: range(18, total_hours) is exhausted
LoopExit ==
    /\ pc = "hour"
    /\ hour >= total_hours
    /\ pc' = "done"
    /\ UNCHANGED <<inputs, simvars, energy_needs, schedule, requirements_met,
                   hour_port_count, hour, available_cars, car_needs, idx>>

\* lines 72-73: the hour is not a column of the matrix
SkipHour ==
    /\ pc = "hour"
    /\ hour < total_hours
    /\ hour \notin availability.columns
    /\ hour' = hour + 1
    /\ UNCHANGED <<inputs, simvars, energy_needs, schedule, requirements_met,
                   hour_port_count, available_cars, car_needs, idx, pc>>

\* lines 75-92: the available vehicles and the sorted candidate list
BuildCandidates ==
    /\ pc = "hour"
    /\ hour < total_hours
    /\ hour \in availability.columns
    /\ available_cars' = AvailableCars(hour)
    /\ car_needs' = Prioritize(BuildCarNeeds(AvailableCars(hour), hour))
    /\ idx' = 1
    /\ pc' = "assign"
    /\ UNCHANGED <<inputs, simvars, energy_needs, schedule, requirements_met,
                   hour_port_count, hour>>

\* mutant: neither the slice nor the break limit the loop
InLoop_NoCap ==
    /\ pc = "assign"
    /\ idx <= Len(car_needs)

\* the loop of line 95 has a current element and line 96 does not break
InLoop ==
    /\ pc = "assign"
    /\ idx <= Len(SliceTo(car_needs, num_ports))
    /\ Get(hour_port_count, hour, 0) < num_ports

Current == car_needs[idx]

CurrentReq == energy_needs[Current.car_id][Current.req_index + 1]

\* lines 117-118
Record(car_id, power_kw) ==
    /\ schedule' = Put(schedule, car_id,
                       Append(Get(schedule, car_id, <<>>),
                              <<hour, power_kw, Get(hour_port_count, hour, 0) + 1>>))
    /\ hour_port_count' = Put(hour_port_count, hour, Get(hour_port_count, hour, 0) + 1)

\* mutant: the power is taken from the energy field of the candidate
MaxRatePower_EnergyField(c) == c.energy_kwh

\* line 102: power_kw = max_rate_kw
MaxRatePower(c) == c.max_rate_kw

\* lines 100-103, 117-118: a candidate of energy 0 charges at its max rate
AssignMaxRate ==
    /\ InLoop
    /\ Current.energy_kwh = 0
    /\ Record(Current.car_id, MaxRatePower(Current))
    /\ idx' = idx + 1
    /\ UNCHANGED <<inputs, simvars, energy_needs, requirements_met, hour, available_cars,
                   car_needs, pc>>

SetMet(car_id, req_index) ==
    [requirements_met EXCEPT ![car_id][req_index + 1] = TRUE]

\* lines 106-110: already delivered enough; flag, no session, no port
SkipDelivered ==
    /\ InLoop
    /\ Current.energy_kwh # 0
    /\ EnergyDelivered(schedule, Current.car_id, CurrentReq) >= Current.energy_kwh
    /\ requirements_met' = SetMet(Current.car_id, Current.req_index)
    /\ schedule' = Touch(schedule, Current.car_id, <<>>)
    /\ hour_port_count' = Touch(hour_port_count, hour, 0)
    /\ idx' = idx + 1
    /\ UNCHANGED <<inputs, simvars, energy_needs, hour, available_cars, car_needs, pc>>

\* mutant: the larger of the two instead of the smaller
NeedPower_Max(max_rate_kw, energy_remaining) ==
    IF max_rate_kw >= energy_remaining THEN max_rate_kw ELSE energy_remaining

\* mutant: the max rate, whatever remains to be delivered
NeedPower_FullRate(max_rate_kw, energy_remaining) == max_rate_kw

\* line 112: power_kw = min(max_rate_kw, energy_remaining)
NeedPower(max_rate_kw, energy_remaining) == Min(max_rate_kw, energy_remaining)

\* mutant: the need has to be exceeded
Reaches_Strict(energy_delivered, power_kw, energy_kwh) ==
    energy_delivered + power_kw > energy_kwh

\* line 113: energy_delivered + power_kw >= energy_kwh
Reaches(energy_delivered, power_kw, energy_kwh) ==
    energy_delivered + power_kw >= energy_kwh

\* lines 106-118: min(max rate, remaining need)
AssignNeed ==
    /\ InLoop
    /\ Current.energy_kwh # 0
    /\ LET energy_delivered == EnergyDelivered(schedule, Current.car_id, CurrentReq)
           power_kw == NeedPower(Current.max_rate_kw, Current.energy_kwh - energy_delivered)
       IN /\ energy_delivered < Current.energy_kwh
          /\ requirements_met' =
                IF Reaches(energy_delivered, power_kw, Current.energy_kwh)
                THEN SetMet(Current.car_id, Current.req_index)
                ELSE requirements_met
          /\ Record(Current.car_id, power_kw)
    /\ idx' = idx + 1
    /\ UNCHANGED <<inputs, simvars, energy_needs, hour, available_cars, car_needs, pc>>

\* the loop of line 95 ends (list exhausted, or the break of line 97)
EndHour ==
    /\ pc = "assign"
    /\ \/ idx > Len(SliceTo(car_needs, num_ports))
       \/ Get(hour_port_count, hour, 0) >= num_ports
    /\ hour_port_count' =
          IF idx > Len(SliceTo(car_needs, num_ports)) THEN hour_port_count
          ELSE Touch(hour_port_count, hour, 0)
    /\ hour' = hour + 1
    /\ pc' = "hour"
    /\ UNCHANGED <<inputs, simvars, energy_needs, schedule, requirements_met,
                   available_cars, car_needs, idx>>

\* ------------------------------------------------- compute_costs_and_soc
\* A simulated SoC is written as the stored energy in units of 1/100 kWh,
\* that is soc * capacity * 100: the initial SoC of a vehicle is
\* InitialSoc * capacity, a full battery is FullSoc * capacity, and a power
\* of p units (p / 95 kW) stores p / 95 * 0.95 kWh = p units of 1/100 kWh.
\* A cost is power (units of 1/95 kW) times price (cents per kWh).

\* the simulated hours: range(18, 168)
SimEnd == 168

\* the day index is capped: if day > 5: day = 5
LastDay == 5

\* the fallback price 0.40, in cents per kWh
DefaultPrice == 40

\* lines 127-129; the vehicles of schedule.items() are queued in row order
\* (the traces of different vehicles do not depend on each other)
SimInit ==
    /\ pc = "done"
    /\ cost_summary' = Empty
    /\ final_soc' = [car_id \in DOMAIN cars_dict |-> InitialSoc]
    /\ hourly_soc' = Empty
    /\ sim_queue' = SelectSeq(car_index, LAMBDA c : c \in DOMAIN schedule)
    /\ pc' = "simcar"
    /\ UNCHANGED <<inputs, schedvars, sim_car, sim_hour, current_soc>>

\* lines 131-134: the next vehicle of the schedule starts at the initial SoC
SimCarStart ==
    /\ pc = "simcar"
    /\ sim_queue # <<>>
    /\ sim_car' = Head(sim_queue)
    /\ sim_queue' = Tail(sim_queue)
    /\ current_soc' = InitialSoc * cars_dict[Head(sim_queue)].capacity_kWh
    /\ sim_hour' = FirstHour
    /\ pc' = "simhour"
    /\ UNCHANGED <<inputs, schedvars, cost_summary, final_soc, hourly_soc>>

\* lines 137-139
DayOf(h) ==
    IF (h - FirstHour) \div DayHours > LastDay THEN LastDay
    ELSE (h - FirstHour) \div DayHours

\* lines 141-142: reset rule A
ResetA(car_id, h, soc) ==
    IF car_id \notin DOMAIN energy_needs /\ h = FirstHour + DayOf(h) * DayHours
    THEN InitialSoc * cars_dict[car_id].capacity_kWh
    ELSE soc

\* mutant: no reset at a deadline hour
ResetB_Never(car_id, h, soc) == soc

\* lines 145-149: reset rule B
ResetB(car_id, h, soc) ==
    IF \E i \in DOMAIN Get(energy_needs, car_id, <<>>) :
            energy_needs[car_id][i].deadline_hour = h
    THEN InitialSoc * cars_dict[car_id].capacity_kWh
    ELSE soc

\* line 151: next((p for h, p, _ in sessions if h == hour), 0)
RECURSIVE PowerAt(_, _)
PowerAt(sessions, h) ==
    IF sessions = <<>> THEN 0
    ELSE IF Head(sessions)[1] = h THEN Head(sessions)[2]
    ELSE PowerAt(Tail(sessions), h)

\* mutant: no clamp
Clamp_None(car_id, soc) == soc

\* line 153: min(1.0, ...)
Clamp(car_id, soc) == Min(FullSoc * cars_dict[car_id].capacity_kWh, soc)

\* mutant: an hour missing from the table costs nothing
PriceAt_NoFallback(h) == Get(price_dict, h, 0)

\* line 157: price_dict.get(hour, 0.40)
PriceAt(h) == Get(price_dict, h, DefaultPrice)

\* lines 136-158: one hour of the current vehicle
SimHour ==
    /\ pc = "simhour"
    /\ sim_hour < SimEnd
    /\ LET day == DayOf(sim_hour)
           power_kw == PowerAt(schedule[sim_car], sim_hour)
           soc == Clamp(sim_car,
                        ResetB(sim_car, sim_hour, ResetA(sim_car, sim_hour, current_soc))
                        + power_kw)
       IN /\ current_soc' = soc
          /\ hourly_soc' = Put(hourly_soc, sim_car,
                               Append(Get(hourly_soc, sim_car, <<>>),
                                      <<day, sim_hour, power_kw, soc>>))
          /\ cost_summary' =
                IF power_kw > 0
                THEN Put(cost_summary, sim_car,
                         Append(Get(cost_summary, sim_car, <<>>),
                                <<day, sim_hour, power_kw * PriceAt(sim_hour)>>))
                ELSE cost_summary
    /\ sim_hour' = sim_hour + 1
    /\ UNCHANGED <<inputs, schedvars, final_soc, sim_queue, sim_car, pc>>

\* line 136: range(18, 168) is exhausted for the current vehicle
SimCarEnd ==
    /\ pc = "simhour"
    /\ sim_hour >= SimEnd
    /\ pc' = "simcar"
    /\ UNCHANGED <<inputs, schedvars, simvars>>

\* line 160: every vehicle of the schedule is done
SimReturn ==
    /\ pc = "simcar"
    /\ sim_queue = <<>>
    /\ pc' = "simdone"
    /\ UNCHANGED <<inputs, schedvars, simvars>>

SimIdle ==
    /\ cost_summary = Empty
    /\ final_soc = Empty
    /\ hourly_soc = Empty
    /\ sim_queue = <<>>
    /\ sim_car = ""
    /\ sim_hour = 0
    /\ current_soc = 0

SchedIdle ==
    /\ energy_needs = Empty
    /\ schedule = Empty
    /\ requirements_met = Empty
    /\ hour_port_count = Empty
    /\ hour = 0
    /\ available_cars = <<>>
    /\ car_needs = <<>>
    /\ idx = 0

\* the inputs of the scheduler; it does not read the price table
Init ==
    /\ \E inp \in FamilyInputs \cup ScenarioInputs :
        /\ car_index = inp.car_index
        /\ cars_dict = inp.cars_dict
        /\ requirements = inp.requirements
        /\ availability = inp.availability
        /\ num_ports = inp.num_ports
        /\ total_hours = inp.total_hours
    /\ price_dict = Empty
    /\ SchedIdle
    /\ SimIdle
    /\ pc = "calc"

\* the inputs of main
InitSim ==
    /\ \E inp \in SimInputs :
        /\ car_index = inp.car_index
        /\ cars_dict = inp.cars_dict
        /\ requirements = inp.requirements
        /\ availability = inp.availability
        /\ num_ports = inp.num_ports
        /\ total_hours = inp.total_hours
        /\ price_dict = inp.price_dict
    /\ SchedIdle
    /\ SimIdle
    /\ pc = "calc"

Next ==
    \/ CalculateEnergyNeeds
    \/ ScheduleInit
    \/ LoopExit
    \/ SkipHour
    \/ BuildCandidates
    \/ AssignMaxRate
    \/ SkipDelivered
    \/ AssignNeed
    \/ EndHour

Spec == Init /\ [][Next]_vars

\* main: the needs, the schedule, then the simulation
NextSim ==
    \/ Next
    \/ SimInit
    \/ SimCarStart
    \/ SimHour
    \/ SimCarEnd
    \/ SimReturn

SpecSim == InitSim /\ [][NextSim]_vars

\* ------------------------------------------------------------- properties

SessionsOf(c) == IF c \in DOMAIN schedule THEN schedule[c] ELSE <<>>

SessionSlots == UNION {{<<c, i>> : i \in DOMAIN schedule[c]} : c \in DOMAIN schedule}

SessionHours == {schedule[p[1]][p[2]][1] : p \in SessionSlots}

HasSessionAt(c, h) == \E i \in DOMAIN SessionsOf(c) : SessionsOf(c)[i][1] = h

SessionCount(h) == Cardinality({p \in SessionSlots : schedule[p[1]][p[2]][1] = h})

\* total power of the first n sessions of c whose hour lies in [lo, hi)
RECURSIVE PowerIn(_, _, _, _)
PowerIn(c, n, lo, hi) ==
    IF n = 0 THEN 0
    ELSE PowerIn(c, n - 1, lo, hi)
         + (IF lo <= SessionsOf(c)[n][1] /\ SessionsOf(c)[n][1] < hi
            THEN SessionsOf(c)[n][2] ELSE 0)

\* energy delivered to c inside the eligibility window of its i-th requirement
DeliveredTo(c, i) ==
    PowerIn(c, Len(SessionsOf(c)), energy_needs[c][i].prior_day_start,
            energy_needs[c][i].prior_day_end)

ReqSlots == UNION {{<<c, i>> : i \in DOMAIN requirements_met[c]} : c \in DOMAIN requirements_met}

Opportunistic(c) == c \in DOMAIN cars_dict /\ c \notin DOMAIN energy_needs

\* C1: in every state of the scheduling pass, the number of sessions recorded
\* for any absolute hour, over all vehicles, is at most num_ports.
C1_PortCapacity == \A h \in SessionHours : SessionCount(h) <= num_ports

\* an hour filled to capacity while the priority list was longer than num_ports
C1_Witness ==
    /\ pc = "assign"
    /\ num_ports >= 1
    /\ Len(car_needs) > num_ports
    /\ SessionCount(hour) = num_ports

\* C2: the hours of every vehicle's session list are strictly increasing, so
\* a vehicle has at most one session per hour.
C2_NoDoubleAssignment ==
    \A c \in DOMAIN schedule : \A i, j \in DOMAIN schedule[c] :
        i < j => schedule[c][i][1] < schedule[c][j][1]

\* a vehicle with two unmet requirements eligible in the current hour, which
\* got its session of that hour
C2_Witness ==
    /\ pc = "assign"
    /\ \E c \in DOMAIN requirements_met :
        /\ HasSessionAt(c, hour)
        /\ \E i, j \in DOMAIN energy_needs[c] :
            /\ i < j
            /\ InWindow(energy_needs[c][i], hour) /\ InWindow(energy_needs[c][j], hour)
            /\ ~requirements_met[c][i] /\ ~requirements_met[c][j]

\* C3: whenever a satisfaction flag is true, the power delivered inside the
\* requirement's eligibility window is at least its energy need; and a flag
\* that is true stays true.
C3_FlagsSound ==
    /\ [](\A p \in ReqSlots : requirements_met[p[1]][p[2]] =>
            DeliveredTo(p[1], p[2]) >= energy_needs[p[1]][p[2]].energy_kwh)
    /\ [][\A p \in ReqSlots : requirements_met[p[1]][p[2]] =>
            requirements_met'[p[1]][p[2]]]_vars

\* a vehicle with satisfied requirements of two different days, hence with
\* sessions outside the window of each
C3_Witness ==
    \E c \in DOMAIN requirements_met : \E i, j \in DOMAIN requirements_met[c] :
        /\ energy_needs[c][i].day # energy_needs[c][j].day
        /\ requirements_met[c][i] /\ requirements_met[c][j]
        /\ DeliveredTo(c, i) > 0 /\ DeliveredTo(c, j) > 0

\* C4: every session of a vehicle without requirements has the vehicle's
\* max charge rate as its power.
C4_OpportunisticMaxRate ==
    \A c \in DOMAIN schedule : Opportunistic(c) =>
        \A i \in DOMAIN schedule[c] :
            schedule[c][i][2] = Efficiency * cars_dict[c].max_charge_rate_kW

\* a vehicle without requirements holding two sessions
C4_Witness ==
    \E c \in DOMAIN schedule : Opportunistic(c) /\ Len(schedule[c]) >= 2

\* C10: every session hour h of vehicle v satisfies 18 <= h < total_hours, is
\* a column of the availability matrix, and v is marked available at h.
C10_HorizonAvailability ==
    \A c \in DOMAIN schedule : \A i \in DOMAIN schedule[c] :
        LET h == schedule[c][i][1]
        IN /\ FirstHour <= h /\ h < total_hours
           /\ h \in availability.columns
           /\ h \in availability.on[c]

\* the pass is over, sessions exist, and the matrix marks some vehicle
\* available before hour 18 and at or after total_hours, and some vehicle
\* unavailable at an hour where another one charges
C10_Witness ==
    /\ pc = "done"
    /\ \E c \in DOMAIN schedule : \E i \in DOMAIN schedule[c] :
        \E d \in DOMAIN cars_dict : schedule[c][i][1] \notin availability.on[d]
    /\ \E c \in DOMAIN schedule : schedule[c] # <<>> /\
        \E h \in availability.on[c] : h < FirstHour
    /\ \E c \in DOMAIN schedule : schedule[c] # <<>> /\
        \E h \in availability.on[c] : h >= total_hours

\* no target lies below the initial SoC: every energy need is >= 0
TargetsAtLeastInitial ==
    \A c \in DOMAIN requirements : \A i \in DOMAIN requirements[c] :
        requirements[c][i].target_soc >= InitialSoc

\* C5 (on inputs without negative energy needs): in any hour in which a
\* vehicle without requirements receives a session, every vehicle that is
\* available at that hour and has an unmet requirement eligible at that hour,
\* with positive energy need not yet fully delivered, receives a session too.
C5_NeedsBeforeOpportunistic ==
    TargetsAtLeastInitial =>
    \A h \in SessionHours :
        (\E o \in DOMAIN schedule : Opportunistic(o) /\ HasSessionAt(o, h)) =>
            \A v \in DOMAIN requirements_met :
                (/\ h \in availability.on[v]
                 /\ \E i \in DOMAIN requirements_met[v] :
                        /\ ~requirements_met[v][i]
                        /\ InWindow(energy_needs[v][i], h)
                        /\ energy_needs[v][i].energy_kwh > 0
                        /\ DeliveredTo(v, i) < energy_needs[v][i].energy_kwh)
                => HasSessionAt(v, h)

\* C6: while an hour is being assigned, if needs-group candidates X and Y are
\* such that X has its session of the hour and Y has none although the energy
\* delivered to Y's selected requirement is below its need, then X's need is
\* at most Y's, and with equal needs X's max rate is at least Y's.
C6_NeedsPriority ==
    pc = "assign" =>
        \A x, y \in DOMAIN car_needs :
            (/\ car_needs[x].energy_kwh > 0
             /\ car_needs[y].energy_kwh > 0
             /\ HasSessionAt(car_needs[x].car_id, hour)
             /\ ~HasSessionAt(car_needs[y].car_id, hour)
             /\ DeliveredTo(car_needs[y].car_id, car_needs[y].req_index + 1)
                    < car_needs[y].energy_kwh)
            => /\ car_needs[x].energy_kwh <= car_needs[y].energy_kwh
               /\ car_needs[x].energy_kwh = car_needs[y].energy_kwh
                    => car_needs[x].max_rate_kw >= car_needs[y].max_rate_kw

Position(c) == CHOOSE i \in DOMAIN car_index : car_index[i] = c

\* X is served and Y is not, with equal needs, X the faster charger although
\* Y comes first in the row order
C6_Witness ==
    /\ pc = "assign"
    /\ \E x, y \in DOMAIN car_needs :
        /\ car_needs[x].energy_kwh > 0
        /\ car_needs[x].energy_kwh = car_needs[y].energy_kwh
        /\ car_needs[x].max_rate_kw > car_needs[y].max_rate_kw
        /\ Position(car_needs[y].car_id) < Position(car_needs[x].car_id)
        /\ HasSessionAt(car_needs[x].car_id, hour)
        /\ ~HasSessionAt(car_needs[y].car_id, hour)
        /\ idx > num_ports

IsScenario7 ==
    /\ car_index = Scenario7.car_index
    /\ cars_dict = Scenario7.cars_dict
    /\ requirements = Scenario7.requirements
    /\ availability = Scenario7.availability
    /\ num_ports = Scenario7.num_ports
    /\ total_hours = Scenario7.total_hours

\* in the scenario the flag is false until hour 20 is assigned and true after
Scenario7Flag ==
    pc = "hour" => (requirements_met["v1"][1] <=> hour > 20)

\* C7 as stated: in the single-vehicle scenario the scheduler assigns 11 kW
\* at each of hours 18, 19 and 20, the requirement becomes satisfied at hour
\* 20, and there is no session at hours 21, 22, 23.
C7_ScenarioAsStated ==
    IsScenario7 =>
        /\ Scenario7Flag
        /\ pc = "done" =>
            SessionsOf("v1") = <<<<18, Efficiency * 11, 1>>, <<19, Efficiency * 11, 1>>,
                                 <<20, Efficiency * 11, 1>>>>

\* C7 amended: in the single-vehicle scenario the scheduler assigns 11 kW at
\* hours 18 and 19 and the remaining need, min(11, 31.58 - 22) = 9.58 kW, at
\* hour 20; the requirement becomes satisfied at hour 20, and there is no
\* session at hours 21, 22, 23.
C7_ScenarioAmended ==
    IsScenario7 =>
        /\ Scenario7Flag
        /\ pc = "done" =>
            SessionsOf("v1") = <<<<18, Efficiency * 11, 1>>, <<19, Efficiency * 11, 1>>,
                                 <<20, (80 - InitialSoc) * 50 - 2 * Efficiency * 11, 1>>>>

\* the scenario has run to the end of its horizon
C7_Witness == IsScenario7 /\ pc = "done" /\ hour = 168

\* C8 (on inputs without negative energy needs): after any hour has been
\* processed, every requirement whose delivered energy inside its eligibility
\* window is at least its energy need has its satisfaction flag set.
C8_FlagsComplete ==
    (TargetsAtLeastInitial /\ pc \in {"hour", "done"} /\ hour > FirstHour) =>
        \A p \in ReqSlots :
            DeliveredTo(p[1], p[2]) >= energy_needs[p[1]][p[2]].energy_kwh
                => requirements_met[p[1]][p[2]]

\* C9: every requirement record has a non-negative energy need.
C9_NonNegativeNeeds ==
    \A c \in DOMAIN energy_needs : \A i \in DOMAIN energy_needs[c] :
        energy_needs[c][i].energy_kwh >= 0

\* C15: while an hour is being assigned, no candidate beyond position
\* num_ports of the priority list has a session of that hour; and the step
\* that processes a candidate whose selected requirement is already
\* delivered leaves that vehicle's sessions and the hour's session count
\* unchanged and sets the requirement's flag.
C15_TopNTruncation ==
    /\ [](pc = "assign" =>
            \A i \in DOMAIN car_needs :
                i > num_ports => ~HasSessionAt(car_needs[i].car_id, hour))
    /\ [][\A h \in {hour} : \A k \in {idx} \cap DOMAIN car_needs :
            \A c \in {car_needs[k].car_id} : \A r \in {car_needs[k].req_index + 1} :
                (/\ pc = "assign"
                 /\ k <= num_ports
                 /\ car_needs[k].energy_kwh > 0
                 /\ DeliveredTo(c, r) >= car_needs[k].energy_kwh)
                => /\ SessionsOf(c)' = SessionsOf(c)
                   /\ SessionCount(h)' = SessionCount(h)
                   /\ requirements_met'[c][r]]_vars

\* the hour ends with a port unused although the list was longer than
\* num_ports, a candidate of the first num_ports having been skipped
C15_Witness ==
    /\ pc = "assign"
    /\ num_ports >= 1
    /\ idx > num_ports
    /\ Len(car_needs) > num_ports
    /\ SessionCount(hour) < num_ports
    /\ \E i \in 1..num_ports :
        /\ car_needs[i].energy_kwh > 0
        /\ ~HasSessionAt(car_needs[i].car_id, hour)
        /\ requirements_met[car_needs[i].car_id][car_needs[i].req_index + 1]

\* every target lies above the initial SoC: every energy need is positive
AllNeedsPositive ==
    \A c \in DOMAIN requirements : \A i \in DOMAIN requirements[c] :
        requirements[c][i].target_soc > InitialSoc

\* the positions of the requirements of c that have the window of the i-th
SameWindow(c, i) ==
    {j \in DOMAIN energy_needs[c] : energy_needs[c][j].day = energy_needs[c][i].day}

MaxNeed(c, S) ==
    CHOOSE m \in {energy_needs[c][j].energy_kwh : j \in S} :
        \A j \in S : energy_needs[c][j].energy_kwh <= m

\* C17: when every requirement has a positive energy need, the power a
\* vehicle received inside an eligibility window is at most the largest need
\* among its requirements with that window, and equals the need when the
\* window has a single requirement and that requirement is flagged.
C17_NoOverDelivery ==
    AllNeedsPositive =>
        \A p \in ReqSlots :
            /\ DeliveredTo(p[1], p[2]) <= MaxNeed(p[1], SameWindow(p[1], p[2]))
            /\ (SameWindow(p[1], p[2]) = {p[2]} /\ requirements_met[p[1]][p[2]])
                => DeliveredTo(p[1], p[2]) = energy_needs[p[1]][p[2]].energy_kwh

\* a flagged single requirement that took two sessions, the last one partial
C17_Witness ==
    /\ AllNeedsPositive
    /\ \E p \in ReqSlots :
        /\ SameWindow(p[1], p[2]) = {p[2]}
        /\ requirements_met[p[1]][p[2]]
        /\ Len(SessionsOf(p[1])) >= 2
        /\ SessionsOf(p[1])[2][2] < energy_needs[p[1]][p[2]].max_rate_kw

\* C18: every session of a vehicle that has requirements lies inside the
\* eligibility window [day*24+18, (day+1)*24) of one of its requirements.
C18_WindowConfinement ==
    \A c \in DOMAIN schedule \cap DOMAIN energy_needs :
        \A s \in DOMAIN schedule[c] :
            \E i \in DOMAIN requirements[c] :
                /\ requirements[c][i].day * DayHours + FirstHour <= schedule[c][s][1]
                /\ schedule[c][s][1] < (requirements[c][i].day + 1) * DayHours

\* the pass is over; a vehicle with requirements and sessions was available
\* at hour 24, inside the horizon, where no port was used
C18_Witness ==
    /\ pc = "done"
    /\ num_ports >= 1
    /\ total_hours > 24
    /\ SessionCount(24) = 0
    /\ \E c \in DOMAIN schedule \cap DOMAIN energy_needs :
        /\ schedule[c] # <<>>
        /\ 24 \in availability.on[c]

\* no vehicle holds two requirements for the same day
WindowsNotShared ==
    \A c \in DOMAIN requirements : \A i, j \in DOMAIN requirements[c] :
        requirements[c][i].day = requirements[c][j].day => i = j

\* C19: when every requirement has a positive energy need and no vehicle
\* holds two requirements for the same day, a requirement whose flag is false
\* has delivered energy strictly below its need, and when the loop over an
\* hour's candidates is over the hour has min(num_ports, candidates) sessions.
C19_WorkConservation ==
    (AllNeedsPositive /\ WindowsNotShared) =>
        /\ \A p \in ReqSlots :
            ~requirements_met[p[1]][p[2]]
                => DeliveredTo(p[1], p[2]) < energy_needs[p[1]][p[2]].energy_kwh
        /\ (pc = "assign" /\ (idx > Len(car_needs) \/ idx > num_ports))
            => SessionCount(hour) =
                 (IF num_ports < Len(car_needs) THEN num_ports ELSE Len(car_needs))

\* an hour ends with every port used by a requirement that is now flagged,
\* candidates being left over
C19_Witness ==
    /\ AllNeedsPositive /\ WindowsNotShared
    /\ pc = "assign"
    /\ num_ports >= 1
    /\ idx > num_ports
    /\ Len(car_needs) > num_ports
    /\ \A i \in 1..num_ports :
        /\ car_needs[i].energy_kwh > 0
        /\ requirements_met[car_needs[i].car_id][car_needs[i].req_index + 1]

\* ------------------------------------------------ the simulated week

TraceOf(c) == IF c \in DOMAIN hourly_soc THEN hourly_soc[c] ELSE <<>>

CostsOf(c) == IF c \in DOMAIN cost_summary THEN cost_summary[c] ELSE <<>>

\* the power of the session of c at hour h, 0 without a session
SessionPower(c, h) ==
    IF HasSessionAt(c, h)
    THEN SessionsOf(c)[CHOOSE i \in DOMAIN SessionsOf(c) :
                          /\ SessionsOf(c)[i][1] = h
                          /\ \A j \in 1..(i - 1) : SessionsOf(c)[j][1] # h][2]
    ELSE 0

\* the SoC entry before the k-th one, the initial SoC before the first
PreviousSoc(c, k) ==
    IF k = 1 THEN InitialSoc * cars_dict[c].capacity_kWh ELSE TraceOf(c)[k - 1][4]

Full(c) == FullSoc * cars_dict[c].capacity_kWh

IsDeadline(c, h) ==
    /\ c \in DOMAIN energy_needs
    /\ \E i \in DOMAIN energy_needs[c] : energy_needs[c][i].deadline_hour = h

\* C12: every SoC recorded in the trace of compute_costs_and_soc, for every
\* vehicle and hour, is at most 1.0.
C12_SocAtMostOne ==
    \A c \in DOMAIN hourly_soc : \A k \in DOMAIN hourly_soc[c] :
        hourly_soc[c][k][4] <= Full(c)

\* an hour whose charging would have carried the SoC above 1.0
C12_Witness ==
    \E c \in DOMAIN hourly_soc : \E k \in DOMAIN hourly_soc[c] :
        /\ k > 1
        /\ ~IsDeadline(c, hourly_soc[c][k][2])
        /\ hourly_soc[c][k][3] > 0
        /\ hourly_soc[c][k - 1][4] + hourly_soc[c][k][3] > Full(c)
        /\ hourly_soc[c][k][4] = Full(c)

\* C13: once compute_costs_and_soc has returned, every vehicle of the roster,
\* also one that never received a session, has exactly one trace entry for
\* each hour of [18, total_hours), in order.
C13_TraceCoverage ==
    pc = "simdone" =>
        \A c \in DOMAIN cars_dict :
            /\ Len(TraceOf(c)) = total_hours - FirstHour
            /\ \A k \in DOMAIN TraceOf(c) : TraceOf(c)[k][2] = FirstHour + k - 1

CostsAt(c, h) == {k \in DOMAIN CostsOf(c) : CostsOf(c)[k][2] = h}

\* C14: once compute_costs_and_soc has returned, a vehicle has a cost entry
\* for a simulated hour exactly when it has a session with power > 0 at that
\* hour; the cost is the power times the price of the hour, or times 0.40
\* when the price table has no such hour.
C14_CostRecords ==
    pc = "simdone" =>
        \A c \in DOMAIN cars_dict : \A h \in FirstHour..(SimEnd - 1) :
            IF SessionPower(c, h) > 0
            THEN /\ Cardinality(CostsAt(c, h)) = 1
                 /\ \A k \in CostsAt(c, h) :
                        CostsOf(c)[k][3] =
                            SessionPower(c, h)
                            * (IF h \in DOMAIN price_dict THEN price_dict[h] ELSE DefaultPrice)
            ELSE CostsAt(c, h) = {}

\* a session at hour 50, which the price table does not hold, costed at 0.40
C14_Witness ==
    /\ pc = "simdone"
    /\ 50 \notin DOMAIN price_dict
    /\ \E c \in DOMAIN cars_dict :
        /\ SessionPower(c, 50) > 0
        /\ \E k \in CostsAt(c, 50) : CostsOf(c)[k][3] = SessionPower(c, 50) * DefaultPrice

\* C16: in the trace of a vehicle with requirements, the entry of a deadline
\* hour is min(1.0, initial SoC + charging of that hour), whatever had been
\* accumulated; the entry of any other hour is min(1.0, previous entry +
\* charging of that hour), and so is not below the previous entry.
C16_ResetBeforeCharging ==
    \A c \in DOMAIN hourly_soc \cap DOMAIN energy_needs : \A k \in DOMAIN hourly_soc[c] :
        \A h \in {hourly_soc[c][k][2]} :
            IF IsDeadline(c, h)
            THEN hourly_soc[c][k][4] =
                    Min(Full(c), InitialSoc * cars_dict[c].capacity_kWh + SessionPower(c, h))
            ELSE /\ hourly_soc[c][k][4] = Min(Full(c), PreviousSoc(c, k) + SessionPower(c, h))
                 /\ hourly_soc[c][k][4] >= PreviousSoc(c, k)

\* a deadline hour with a session, reached with more than the initial SoC
C16_Witness ==
    \E c \in DOMAIN hourly_soc \cap DOMAIN energy_needs : \E k \in DOMAIN hourly_soc[c] :
        /\ IsDeadline(c, hourly_soc[c][k][2])
        /\ SessionPower(c, hourly_soc[c][k][2]) > 0
        /\ PreviousSoc(c, k) > InitialSoc * cars_dict[c].capacity_kWh
        /\ hourly_soc[c][k][4] < PreviousSoc(c, k)

\* at most one requirement per day, deadlines before 18:00, targets in
\* (initial SoC, 1.0]
PlainRequirements(c) ==
    /\ c \in DOMAIN requirements
    /\ \A i, j \in DOMAIN requirements[c] :
            requirements[c][i].day = requirements[c][j].day => i = j
    /\ \A i \in DOMAIN requirements[c] :
        /\ requirements[c][i].time < FirstHour
        /\ InitialSoc < requirements[c][i].target_soc
        /\ requirements[c][i].target_soc <= FullSoc

SocAt(c, h) == {TraceOf(c)[k][4] : k \in {j \in DOMAIN TraceOf(c) : TraceOf(c)[j][2] = h}}

\* C20: with a horizon of 168 hours, for a vehicle with plain requirements,
\* every requirement of a day up to 5 whose window received at least its
\* energy need finds the simulated SoC at or above its target in the hour
\* before its deadline.
C20_TargetReached ==
    (pc = "simdone" /\ total_hours = SimEnd) =>
        \A c \in DOMAIN energy_needs : PlainRequirements(c) =>
            \A i \in DOMAIN energy_needs[c] :
                (/\ energy_needs[c][i].day <= LastDay
                 /\ DeliveredTo(c, i) >= energy_needs[c][i].energy_kwh)
                => /\ SocAt(c, energy_needs[c][i].deadline_hour - 1) # {}
                   /\ \A s \in SocAt(c, energy_needs[c][i].deadline_hour - 1) :
                        s >= energy_needs[c][i].target_soc * cars_dict[c].capacity_kWh

\* two served requirements of one vehicle on different days, the second
\* reached exactly after the reset at the first one's deadline
C20_Witness ==
    /\ pc = "simdone"
    /\ total_hours = SimEnd
    /\ \E c \in DOMAIN energy_needs :
        /\ PlainRequirements(c)
        /\ Len(energy_needs[c]) = 2
        /\ \A i \in DOMAIN energy_needs[c] :
            /\ DeliveredTo(c, i) >= energy_needs[c][i].energy_kwh
            /\ energy_needs[c][i].target_soc * cars_dict[c].capacity_kWh
                 \in SocAt(c, energy_needs[c][i].deadline_hour - 1)

====
